---- MODULE Spec2Model ----
(***************************************************************************)
(* A model of src/server.js: an Express server that keeps "school" records *)
(* in one MySQL table and stores one optional uploaded image per record.   *)
(*                                                                         *)
(* Strings are sequences of one-character strings, so that path.extname,   *)
(* toLowerCase, the allow-list regular expression and the generated file   *)
(* name are computed character by character as the code computes them.     *)
(* SQL NULL / JavaScript null is the empty sequence Null; a generated      *)
(* image path is never empty.                                              *)
(***************************************************************************)
EXTENDS Integers, Sequences, FiniteSets

\* ------------------------------------------------------------------ bounds
\* Number of HTTP requests the clients send during one run of the process.
NumReq == 2
\* Date.now() of the first upload, and the last millisecond of the run.
FirstMs == 9
MaxMs == 10
\* CURRENT_TIMESTAMP (one-second resolution) ranges over 1..MaxSec.
MaxSec == 2

Req == 1..NumReq

Null == <<>>

\* ------------------------------------------------------------ text helpers
Digit == <<"0", "1", "2", "3", "4", "5", "6", "7", "8", "9">>

\* String(n) of a non-negative integer: its decimal digits.
RECURSIVE NumberToString(_)
NumberToString(n) ==
    IF n < 10 THEN <<Digit[n + 1]>>
    ELSE NumberToString(n \div 10) \o <<Digit[(n % 10) + 1]>>

Upper == <<"A", "B", "C", "D", "E", "F", "G", "H", "I", "J", "K", "L", "M",
           "N", "O", "P", "Q", "R", "S", "T", "U", "V", "W", "X", "Y", "Z">>
Lower == <<"a", "b", "c", "d", "e", "f", "g", "h", "i", "j", "k", "l", "m",
           "n", "o", "p", "q", "r", "s", "t", "u", "v", "w", "x", "y", "z">>

ToLowerChar(c) ==
    IF \E i \in 1..26 : Upper[i] = c
    THEN Lower[CHOOSE i \in 1..26 : Upper[i] = c]
    ELSE c

\* String.prototype.toLowerCase
ToLowerCase(s) == [i \in 1..Len(s) |-> ToLowerChar(s[i])]

\* s contains pat as a contiguous substring
Contains(s, pat) ==
    \E i \in 1..(Len(s) - Len(pat) + 1) : SubSeq(s, i, i + Len(pat) - 1) = pat

\* path.extname of a file name without directory separators: from the last
\* "." to the end; empty when there is no "." or the only "." is the first
\* character.
ExtName(name) ==
    LET dots == {i \in 1..Len(name) : name[i] = "."}
        last == CHOOSE i \in dots : \A j \in dots : j <= i
    IN  IF dots = {} THEN <<>>
        ELSE IF last = 1 THEN <<>>
        ELSE SubSeq(name, last, Len(name))

\* --------------------------------------------------------- upload (multer)
\* limits: { fileSize: 5 * 1024 * 1024 }
FileSizeLimit == 5 * 1024 * 1024

\* The alternatives of the regular expression /jpeg|jpg|png|gif/.
AllowedTypes ==
    { <<"j", "p", "e", "g">>, <<"j", "p", "g">>,
      <<"p", "n", "g">>, <<"g", "i", "f">> }

\* allowedTypes.test(s): the expression is not anchored, so it matches when
\* any alternative occurs anywhere in s.
AllowedTypesTest(s) == \E t \in AllowedTypes : Contains(s, t)

\* fileFilter: TRUE when the callback is cb(null, true), FALSE when it is
\* cb(new Error("Only image files are allowed")).
FileFilter(file) ==
    LET extname  == AllowedTypesTest(ToLowerCase(ExtName(file.originalname)))
        mimetype == AllowedTypesTest(file.mimetype)
    IN  mimetype /\ extname

\* Math.round(Math.random() * 1e9) ranges over 0..RandomMax.
RandomMax == 1000000000
\* The draw of the running server below (there two names differ by their
\* timestamps or not at all), and the draws the naming is examined on.
RandomValues == {RandomMax}
RandomSamples == {0, 1, 10, RandomMax}

\* storage.filename with the random part left out.
GenerateFilename_NoRandom(now, random, originalname) ==
    <<"s", "c", "h", "o", "o", "l", "-">> \o NumberToString(now)
        \o ExtName(originalname)

\* storage.filename: "school-" + Date.now() + "-" + random + extname
GenerateFilename(now, random, originalname) ==
    <<"s", "c", "h", "o", "o", "l", "-">> \o NumberToString(now) \o <<"-">>
        \o NumberToString(random) \o ExtName(originalname)

\* The files the clients upload.
ImagePng  == <<"i", "m", "a", "g", "e", "/", "p", "n", "g">>
ImageJpeg == <<"i", "m", "a", "g", "e", "/", "j", "p", "e", "g">>
TextPlain == <<"t", "e", "x", "t", "/", "p", "l", "a", "i", "n">>

PngFile(size) ==
    [originalname |-> <<"a", ".", "p", "n", "g">>, mimetype |-> ImagePng,
     size |-> size]

\* What req.file is derived from when the request carries no file part.
NoFile == [originalname |-> <<>>, mimetype |-> <<>>, size |-> 0]

\* The files the clients of the running server send.
RequestFiles ==
    { NoFile,
      PngFile(FileSizeLimit),
      PngFile(FileSizeLimit + 1),
      [originalname |-> <<"a", ".", "t", "x", "t">>,
       mimetype |-> TextPlain, size |-> 1] }

\* ------------------------------------------------------------------- state
VARIABLES
    bootPc,       \* position of the start-up code: initializeDatabase, listen
    bootConn,     \* initializeDatabase holds a pool connection
    initOk,       \* initializeDatabase reached its success log line
    tableExists,  \* the schools table exists in the database
    table,        \* rows of the schools table
    autoInc,      \* next AUTO_INCREMENT value of schools.id
    dbClock,      \* CURRENT_TIMESTAMP of the database server, in seconds
    nodeClock,    \* Date.now() of the process, in milliseconds
    disk,         \* files in public/schoolImages: [name, owner]
    written,      \* history: every file an accepted upload has written
    poolOut,      \* connections checked out of the pool
    req           \* the requests: position in middleware/handler, inputs, response

vars == <<bootPc, bootConn, initOk, tableExists, table, autoInc, dbClock,
          nodeClock, disk, written, poolOut, req>>

NoError == [multer |-> FALSE, code |-> "none"]
\* new Error("Only image files are allowed")
FilterError == [multer |-> FALSE, code |-> "Only image files are allowed"]
\* multer.MulterError with code LIMIT_FILE_SIZE
FileSizeError == [multer |-> TRUE, code |-> "LIMIT_FILE_SIZE"]

\* A request: pc is its position, kind its route; file and param (the :id, as
\* the number MySQL compares with the id column) are its inputs; stored and
\* filename are req.file; image, ok, insertId, rows are the handler's locals;
\* conn tells that it holds a pool connection; status, schoolId, body are its
\* response; seen is the set of schoolIds answered before it arrived. now,
\* random and accepted record, where the upload's functions are applied one
\* by one, the arguments of storage.filename and the verdict of fileFilter.
IdleReq ==
    [pc |-> "idle", kind |-> "none", file |-> NoFile, param |-> 0,
     now |-> 0, random |-> 0, accepted |-> FALSE,
     filename |-> Null, stored |-> FALSE,
     error |-> NoError, image |-> Null, conn |-> FALSE,
     ok |-> FALSE, insertId |-> 0, rows |-> <<>>,
     status |-> 0, schoolId |-> 0, body |-> <<>>, seen |-> {}]

\* The request once it is answered: the response, and of the request what
\* the properties speak about.
Answered(q, status, schoolId, body) ==
    [IdleReq EXCEPT !.pc = "done", !.kind = q.kind, !.param = q.param,
                    !.stored = q.stored, !.error = q.error, !.conn = q.conn,
                    !.ok = q.ok, !.rows = q.rows, !.seen = q.seen,
                    !.status = status, !.schoolId = schoolId, !.body = body]

\* schoolIds that create requests have been answered with (status 201)
Returned ==
    {req[p].schoolId : p \in {q \in Req : req[q].kind = "create"
                                          /\ req[q].pc = "done"
                                          /\ req[q].status = 201}}

\* A counter that does not advance.
NextAutoIncrement_Stuck(n) == n

\* id INT AUTO_INCREMENT PRIMARY KEY: the counter after an insert took n.
NextAutoIncrement(n) == n + 1

\* The database outlives the process: a row that an earlier run of the
\* server inserted, without an image, in the second in which this run starts.
PreviousRow == [id |-> 1, image |-> Null, created_at |-> 1, by |-> 0]

Init ==
    /\ bootPc = "getConnection"
    /\ bootConn = FALSE
    /\ initOk = FALSE
    /\ \/ /\ tableExists \in BOOLEAN  \* an earlier run may have created it
          /\ table = {}
          /\ autoInc = 1
       \/ /\ tableExists = TRUE
          /\ table = {PreviousRow}
          /\ autoInc = PreviousRow.id + 1
    /\ dbClock = 1
    /\ nodeClock = FirstMs
    /\ disk = {}
    /\ written = {}
    /\ poolOut = 0
    /\ req = [r \in Req |-> IdleReq]

\* --------------------------------------------------------------- bootstrap
\* initializeDatabase up to "await pool.getConnection()": on failure the
\* catch block logs and the function returns normally.
InitGetConnection ==
    /\ bootPc = "getConnection"
    /\ \E ok \in BOOLEAN :
         IF ok
         THEN /\ bootPc' = "execute"
              /\ bootConn' = TRUE
              /\ poolOut' = poolOut + 1
         ELSE /\ bootPc' = "resolved"
              /\ UNCHANGED <<bootConn, poolOut>>
    /\ UNCHANGED <<initOk, tableExists, table, autoInc, dbClock, nodeClock,
                   disk, written, req>>

\* "await connection.execute(createTableQuery)", then release and the
\* success log; on failure the catch block logs, without a release.
InitExecute ==
    /\ bootPc = "execute"
    /\ \E ok \in BOOLEAN :
         IF ok
         THEN /\ tableExists' = TRUE
              /\ bootConn' = FALSE
              /\ poolOut' = poolOut - 1
              /\ initOk' = TRUE
         ELSE UNCHANGED <<tableExists, bootConn, poolOut, initOk>>
    /\ bootPc' = "resolved"
    /\ UNCHANGED <<table, autoInc, dbClock, nodeClock, disk, written, req>>

\* initializeDatabase().then(() => app.listen(PORT, ...))
Listen ==
    /\ bootPc = "resolved"
    /\ bootPc' = "listening"
    /\ UNCHANGED <<bootConn, initOk, tableExists, table, autoInc, dbClock,
                   nodeClock, disk, written, poolOut, req>>

\* ---------------------------------------------------------------- requests
\* A request arrives at the listening server; requests are numbered in the
\* order in which they arrive.
CanArrive(r) ==
    /\ bootPc = "listening"
    /\ req[r].pc = "idle"
    /\ \A q \in Req : q < r => req[q].pc # "idle"

\* ------------------------------------------- upload.single("image") (multer)
\* The upload middleware calling next() whatever the outcome.
UploadNext_IgnoreError(error) == "handler"

\* After the upload middleware: next() enters the route handler, next(err)
\* skips it and enters the global error handler.
UploadNext(error) == IF error = NoError THEN "handler" ELSE "errorHandler"

\* POST /api/schools without a file part: req.file stays undefined.
UploadNoFile(r) ==
    /\ CanArrive(r)
    /\ NoFile \in RequestFiles
    /\ req' = [req EXCEPT ![r] = [@ EXCEPT !.pc = UploadNext(NoError),
                                          !.kind = "create"]]
    /\ UNCHANGED <<bootPc, bootConn, initOk, tableExists, table, autoInc,
                   dbClock, nodeClock, disk, written, poolOut>>

\* POST /api/schools with a file that fileFilter rejects: nothing is named
\* or written.
UploadFiltered(r) ==
    /\ CanArrive(r)
    /\ \E f \in RequestFiles \ {NoFile} :
         /\ ~FileFilter(f)
         /\ req' = [req EXCEPT ![r] = [@ EXCEPT !.pc = UploadNext(FilterError),
                                               !.kind = "create",
                                               !.file = f,
                                               !.error = FilterError]]
    /\ UNCHANGED <<bootPc, bootConn, initOk, tableExists, table, autoInc,
                   dbClock, nodeClock, disk, written, poolOut>>

\* POST /api/schools with a file that fileFilter accepts and that is longer
\* than limits.fileSize: storage.filename names it, the stream is written
\* until the limit is hit, multer removes the file it wrote and fails with
\* MulterError LIMIT_FILE_SIZE.
UploadTooLarge(r) ==
    /\ CanArrive(r)
    /\ \E f \in RequestFiles \ {NoFile} :
         /\ FileFilter(f)
         /\ f.size > FileSizeLimit
         /\ \E now \in nodeClock..MaxMs, random \in RandomValues :
              LET name == GenerateFilename(now, random, f.originalname)
              IN  /\ nodeClock' = now
                  /\ disk' = {d \in disk : d.name # name}
                  /\ req' = [req EXCEPT ![r] =
                               [@ EXCEPT !.pc = UploadNext(FileSizeError),
                                         !.kind = "create",
                                         !.file = f,
                                         !.error = FileSizeError]]
    /\ UNCHANGED <<bootPc, bootConn, initOk, tableExists, table, autoInc,
                   dbClock, written, poolOut>>

\* POST /api/schools with a file that fileFilter accepts, within the limit:
\* storage.filename names it and it is written to public/schoolImages,
\* replacing a file of the same name; req.file is set.
UploadStored(r) ==
    /\ CanArrive(r)
    /\ \E f \in RequestFiles \ {NoFile} :
         /\ FileFilter(f)
         /\ f.size <= FileSizeLimit
         /\ \E now \in nodeClock..MaxMs, random \in RandomValues :
              LET name == GenerateFilename(now, random, f.originalname)
              IN  /\ nodeClock' = now
                  /\ disk' = {d \in disk : d.name # name}
                                \cup {[name |-> name, owner |-> r]}
                  /\ written' = written \cup {[name |-> name, by |-> r]}
                  /\ req' = [req EXCEPT ![r] =
                               [@ EXCEPT !.pc = UploadNext(NoError),
                                         !.kind = "create",
                                         !.file = f,
                                         !.stored = TRUE,
                                         !.filename = name]]
    /\ UNCHANGED <<bootPc, bootConn, initOk, tableExists, table, autoInc,
                   dbClock, poolOut>>

\* Global error handler: 400 for MulterError LIMIT_FILE_SIZE, 500 otherwise.
ErrorStatus(error) ==
    IF error.multer /\ error.code = "LIMIT_FILE_SIZE" THEN 400 ELSE 500

ErrorHandler(r) ==
    /\ req[r].pc = "errorHandler"
    /\ req' = [req EXCEPT ![r] =
                 Answered(req[r], ErrorStatus(req[r].error), 0, <<>>)]
    /\ UNCHANGED <<bootPc, bootConn, initOk, tableExists, table, autoInc,
                   dbClock, nodeClock, disk, written, poolOut>>

\* ---------------------------------------------------------- route handlers
SchoolImages == <<"/", "s", "c", "h", "o", "o", "l", "I", "m", "a", "g", "e", "s", "/">>

\* The image path without the generated file name.
ImagePath_NoFilename(stored, filename) ==
    IF stored THEN SchoolImages ELSE Null

\* const image = req.file ? `/schoolImages/${req.file.filename}` : null
ImagePath(stored, filename) ==
    IF stored THEN SchoolImages \o filename ELSE Null

\* A handler from its entry to the outcome of "await pool.getConnection()":
\* with a connection it calls connection.execute; without one its catch
\* block answers 500.
GetConnection(r, q) ==
    /\ \E ok \in BOOLEAN :
         IF ok
         THEN /\ poolOut' = poolOut + 1
              /\ req' = [req EXCEPT ![r] = [q EXCEPT !.pc = "execute",
                                                    !.conn = TRUE]]
         ELSE /\ poolOut' = poolOut
              /\ req' = [req EXCEPT ![r] = Answered(q, 500, 0, <<>>)]
    /\ UNCHANGED <<bootPc, bootConn, initOk, tableExists, table, autoInc,
                   dbClock, nodeClock, disk, written>>

\* app.post("/api/schools"), entered after the upload: image, getConnection
CreateSchool(r) ==
    /\ req[r].pc = "handler"
    /\ GetConnection(r, [req[r] EXCEPT
                           !.image = ImagePath(req[r].stored, req[r].filename)])

\* app.get("/api/schools"): getConnection
ListSchools(r) ==
    /\ CanArrive(r)
    /\ GetConnection(r, [req[r] EXCEPT !.kind = "list", !.seen = Returned])

\* app.get("/api/schools/:id"): id, getConnection
GetSchool(r) ==
    /\ CanArrive(r)
    /\ \E id \in 1..NumReq :
         GetConnection(r, [req[r] EXCEPT !.kind = "getById", !.param = id])

\* ------------------------------------------------------ the database server
\* The columns a SELECT returns (the model's "by" is not a column).
Columns(row) ==
    [id |-> row.id, image |-> row.image, created_at |-> row.created_at]

\* ORDER BY created_at DESC: every ordering of the rows in which created_at
\* never increases; rows with equal created_at come in any order.
OrderByCreatedAtDesc(rows) ==
    LET n == Cardinality(rows)
    IN  {s \in [1..n -> rows] :
           /\ \A i, j \in 1..n : i # j => s[i] # s[j]
           /\ \A i, j \in 1..n : i < j => s[i].created_at >= s[j].created_at}

\* WHERE id = ?
WhereId(rows, id) == {row \in rows : row.id = id}

\* A statement fails when the table is missing, and may fail at any time
\* (a column constraint, a lost connection).
CanSucceed(ok) == ok => tableExists

\* The server executes the INSERT of a create request: created_at defaults
\* to CURRENT_TIMESTAMP, id to the AUTO_INCREMENT counter.
DbInsert(r) ==
    /\ req[r].pc = "execute"
    /\ req[r].kind = "create"
    /\ \E ok \in BOOLEAN :
         /\ CanSucceed(ok)
         /\ IF ok
            THEN \E t \in dbClock..MaxSec :
                   /\ dbClock' = t
                   /\ table' = table \cup {[id |-> autoInc,
                                            image |-> req[r].image,
                                            created_at |-> t,
                                            by |-> r]}
                   /\ autoInc' = NextAutoIncrement(autoInc)
                   /\ req' = [req EXCEPT ![r] = [@ EXCEPT !.pc = "resume",
                                                         !.ok = TRUE,
                                                         !.insertId = autoInc]]
            ELSE /\ req' = [req EXCEPT ![r] = [@ EXCEPT !.pc = "resume",
                                                       !.ok = FALSE]]
                 /\ UNCHANGED <<dbClock, table, autoInc>>
    /\ UNCHANGED <<bootPc, bootConn, initOk, tableExists, nodeClock, disk,
                   written, poolOut>>

\* The server executes a SELECT and returns the rows in the order s.
Select(r, s, ok) ==
    req' = [req EXCEPT ![r] =
              [@ EXCEPT !.pc = "resume", !.ok = ok,
                        !.rows = IF ok THEN [i \in 1..Len(s) |-> Columns(s[i])]
                                 ELSE <<>>]]

\* "SELECT ... FROM schools ORDER BY created_at DESC"
DbSelectAll(r) ==
    /\ req[r].pc = "execute"
    /\ req[r].kind = "list"
    /\ \E ok \in BOOLEAN :
         /\ CanSucceed(ok)
         /\ \E s \in OrderByCreatedAtDesc(table) : Select(r, s, ok)
    /\ UNCHANGED <<bootPc, bootConn, initOk, tableExists, table, autoInc,
                   dbClock, nodeClock, disk, written, poolOut>>

\* "SELECT * FROM schools WHERE id = ?"
DbSelectById(r) ==
    /\ req[r].pc = "execute"
    /\ req[r].kind = "getById"
    /\ \E ok \in BOOLEAN :
         /\ CanSucceed(ok)
         /\ \E s \in OrderByCreatedAtDesc(WhereId(table, req[r].param)) :
              Select(r, s, ok)
    /\ UNCHANGED <<bootPc, bootConn, initOk, tableExists, table, autoInc,
                   dbClock, nodeClock, disk, written, poolOut>>

\* ------------------------------------------- route handlers, after execute
\* `${req.protocol}://${req.get("host")}`
Hosts == { <<"h">> }
BaseUrl(host) == <<"h", "t", "t", "p", ":", "/", "/">> \o host

\* image: row.image ? `${baseUrl}${row.image}` : null
AbsoluteImage(baseUrl, row) ==
    [row EXCEPT !.image = IF row.image # Null THEN baseUrl \o row.image ELSE Null]

\* The statement threw: the catch block answers 500; connection.release()
\* is the statement after the one that threw, and is skipped.
Catch(r) ==
    /\ ~req[r].ok
    /\ req' = [req EXCEPT ![r] = Answered(req[r], 500, 0, <<>>)]
    /\ UNCHANGED poolOut

\* connection.release()
Release(q) == [q EXCEPT !.conn = FALSE]

\* app.post("/api/schools") after the INSERT: release, 201 with insertId.
CreateSchoolRespond(r) ==
    /\ req[r].pc = "resume"
    /\ req[r].kind = "create"
    /\ \/ /\ req[r].ok
          /\ poolOut' = poolOut - 1
          /\ req' = [req EXCEPT ![r] =
                       Answered(Release(req[r]), 201, req[r].insertId, <<>>)]
       \/ Catch(r)
    /\ UNCHANGED <<bootPc, bootConn, initOk, tableExists, table, autoInc,
                   dbClock, nodeClock, disk, written>>

\* app.get("/api/schools") after the SELECT: release, 200 with the rows,
\* each image made absolute.
ListSchoolsRespond(r) ==
    /\ req[r].pc = "resume"
    /\ req[r].kind = "list"
    /\ \/ /\ req[r].ok
          /\ poolOut' = poolOut - 1
          /\ \E host \in Hosts :
               req' = [req EXCEPT ![r] =
                         Answered(Release(req[r]), 200, 0,
                                  [i \in 1..Len(req[r].rows) |->
                                     AbsoluteImage(BaseUrl(host), req[r].rows[i])])]
       \/ Catch(r)
    /\ UNCHANGED <<bootPc, bootConn, initOk, tableExists, table, autoInc,
                   dbClock, nodeClock, disk, written>>

\* The test written as rows.length >= 0.
GetSchoolStatus_AlwaysEmpty(rows) == IF Len(rows) >= 0 THEN 404 ELSE 200

\* if (rows.length === 0) 404, else 200
GetSchoolStatus(rows) == IF Len(rows) = 0 THEN 404 ELSE 200

\* app.get("/api/schools/:id") after the SELECT: release, 404 without a
\* row, else 200 with rows[0], its image made absolute.
GetSchoolRespond(r) ==
    /\ req[r].pc = "resume"
    /\ req[r].kind = "getById"
    /\ \/ /\ req[r].ok
          /\ poolOut' = poolOut - 1
          /\ \E host \in Hosts :
               req' = [req EXCEPT ![r] =
                         Answered(Release(req[r]), GetSchoolStatus(req[r].rows), 0,
                                  IF GetSchoolStatus(req[r].rows) = 404
                                  THEN <<>>
                                  ELSE <<AbsoluteImage(BaseUrl(host), req[r].rows[1])>>)]
       \/ Catch(r)
    /\ UNCHANGED <<bootPc, bootConn, initOk, tableExists, table, autoInc,
                   dbClock, nodeClock, disk, written>>

\* ----------------------------------------------------------- specification
Next ==
    \/ InitGetConnection
    \/ InitExecute
    \/ Listen
    \/ \E r \in Req : UploadNoFile(r)
    \/ \E r \in Req : UploadFiltered(r)
    \/ \E r \in Req : UploadTooLarge(r)
    \/ \E r \in Req : UploadStored(r)
    \/ \E r \in Req : ErrorHandler(r)
    \/ \E r \in Req : CreateSchool(r)
    \/ \E r \in Req : ListSchools(r)
    \/ \E r \in Req : GetSchool(r)
    \/ \E r \in Req : DbInsert(r)
    \/ \E r \in Req : DbSelectAll(r)
    \/ \E r \in Req : DbSelectById(r)
    \/ \E r \in Req : CreateSchoolRespond(r)
    \/ \E r \in Req : ListSchoolsRespond(r)
    \/ \E r \in Req : GetSchoolRespond(r)

Spec == Init /\ [][Next]_vars

\* ------------------------------------------------ the upload's two functions
\* fileFilter and storage.filename applied to the uploads of two create
\* requests, over more files, timestamps and random parts than the running
\* server above is given.
TextJpgs == <<"t", "e", "x", "t", "/", "j", "p", "g", "s">>
ImageGif == <<"i", "m", "a", "g", "e", "/", "g", "i", "f">>

UploadFiles ==
    { PngFile(1),
      [originalname |-> <<"b", ".", "P", "N", "G">>, mimetype |-> ImagePng, size |-> 1],
      [originalname |-> <<"a", ".", "j", "p", "e", "g">>, mimetype |-> ImageJpeg, size |-> 1],
      [originalname |-> <<"a", ".", "b", ".", "g", "i", "f">>, mimetype |-> ImageGif, size |-> 1],
      [originalname |-> <<"a", ".", "t", "x", "t">>, mimetype |-> TextPlain, size |-> 1],
      [originalname |-> <<"a", ".", "p", "n", "g">>, mimetype |-> TextPlain, size |-> 1],
      [originalname |-> <<"a", ".", "p", "n", "g", "x">>, mimetype |-> ImagePng, size |-> 1],
      [originalname |-> <<"a", ".", "j", "p", "g">>, mimetype |-> TextJpgs, size |-> 1],
      [originalname |-> <<".", "p", "n", "g">>, mimetype |-> ImagePng, size |-> 1],
      [originalname |-> <<"p", "n", "g">>, mimetype |-> ImagePng, size |-> 1] }

UploadInputs ==
    { [IdleReq EXCEPT !.pc = "fileFilter", !.kind = "create", !.file = f,
                      !.now = now, !.random = random] :
        f \in UploadFiles, now \in FirstMs..MaxMs, random \in RandomSamples }

NamingInit ==
    /\ bootPc = "listening"
    /\ bootConn = FALSE
    /\ initOk = TRUE
    /\ tableExists = TRUE
    /\ table = {}
    /\ autoInc = 1
    /\ dbClock = 1
    /\ nodeClock = FirstMs
    /\ disk = {}
    /\ written = {}
    /\ poolOut = 0
    /\ \E a, b \in UploadInputs :
         req = [r \in Req |-> IF r = 1 THEN a ELSE IF r = 2 THEN b ELSE IdleReq]

\* multer calls fileFilter on the file part.
FileFilterCall(r) ==
    /\ req[r].pc = "fileFilter"
    /\ req' = [req EXCEPT ![r] =
                 [@ EXCEPT !.accepted = FileFilter(req[r].file),
                           !.pc = IF FileFilter(req[r].file) THEN "filename"
                                  ELSE "rejected",
                           !.error = IF FileFilter(req[r].file) THEN NoError
                                     ELSE FilterError]]
    /\ UNCHANGED <<bootPc, bootConn, initOk, tableExists, table, autoInc,
                   dbClock, nodeClock, disk, written, poolOut>>

\* multer calls storage.filename on an accepted file.
StorageFilename(r) ==
    /\ req[r].pc = "filename"
    /\ req' = [req EXCEPT ![r] =
                 [@ EXCEPT !.pc = "named",
                           !.filename = GenerateFilename(req[r].now, req[r].random,
                                                         req[r].file.originalname)]]
    /\ UNCHANGED <<bootPc, bootConn, initOk, tableExists, table, autoInc,
                   dbClock, nodeClock, disk, written, poolOut>>

NamingNext ==
    \/ \E r \in Req : FileFilterCall(r)
    \/ \E r \in Req : StorageFilename(r)

SpecNaming == NamingInit /\ [][NamingNext]_vars

\* ------------------------------------------------------------------ claims
IsDone(r, kind) == req[r].pc = "done" /\ req[r].kind = kind

Rejected(r) == req[r].error # NoError

\* C1: a handler's connection is released on every exit path: no answered
\* create, list or get-by-id request still holds a pool connection, and once
\* every request is answered the only connection that can be checked out is
\* the one of initializeDatabase.
ReleasedOnEveryExit ==
    /\ \A r \in Req : req[r].pc = "done" => ~req[r].conn
    /\ (\A r \in Req : req[r].pc \in {"idle", "done"})
          => poolOut = IF bootConn THEN 1 ELSE 0

\* C2: the server listens only after initializeDatabase has completed
\* successfully.
ListenOnlyAfterInit == bootPc = "listening" => initOk

\* C3: a create request whose file is rejected, by type or by size, is
\* answered with 400.
RejectedUploadIs400 ==
    \A r \in Req : (IsDone(r, "create") /\ Rejected(r)) => req[r].status = 400

\* C4: a create request whose file is rejected never reaches its INSERT: it
\* goes to the error handler and no row of the table is its own, whatever
\* the other requests insert.
RejectedUploadInsertsNothing ==
    \A r \in Req :
        Rejected(r) => /\ req[r].pc \in {"errorHandler", "done"}
                       /\ \A row \in table : row.by # r

RejectedBesideInsert ==
    \E r, p \in Req :
        /\ IsDone(r, "create") /\ Rejected(r)
        /\ p # r
        /\ \E row \in table : row.by = p

\* C5: a list that arrives after a create was answered 201 with id X, and
\* that is executed while X is the newest row, has X as its first element.
Ids(rows) == {rows[i].id : i \in 1..Len(rows)}
Newest(ids) == CHOOSE x \in ids : \A y \in ids : y <= x

NewestFirst ==
    \A r \in Req :
        (/\ IsDone(r, "list")
         /\ req[r].status = 200
         /\ Ids(req[r].body) # {}
         /\ Newest(Ids(req[r].body)) \in req[r].seen)
        => req[r].body[1].id = Newest(Ids(req[r].body))

\* C6: no two creates are answered with the same schoolId, a returned
\* schoolId is the id of exactly one row, no two rows share an id, and the
\* counter is beyond every id assigned so far, so none is assigned again.
UniqueIds ==
    /\ \A p, q \in Req :
         (p # q /\ IsDone(p, "create") /\ IsDone(q, "create")
          /\ req[p].status = 201 /\ req[q].status = 201)
         => req[p].schoolId # req[q].schoolId
    /\ \A p \in Req :
         (IsDone(p, "create") /\ req[p].status = 201)
         => /\ Cardinality({row \in table : row.id = req[p].schoolId}) = 1
            /\ \A row \in table : row.id = req[p].schoolId => row.by = p
    /\ \A x, y \in table : x.id = y.id => x = y
    /\ \A row \in table : row.id < autoInc

\* Two creates answered 201 in the opposite order of their arrival.
CreatesInterleaved ==
    \E p, q \in Req :
        /\ p < q
        /\ IsDone(p, "create") /\ req[p].status = 201
        /\ IsDone(q, "create") /\ req[q].status = 201
        /\ req[p].schoolId > req[q].schoolId

\* C7, as claimed: two uploads that were both named have different names.
Named(r) == req[r].pc = "named"

SameNamingInputs(p, q) ==
    /\ req[p].now = req[q].now
    /\ req[p].random = req[q].random
    /\ ExtName(req[p].file.originalname) = ExtName(req[q].file.originalname)

GetByIdNotFound ==
    \A r \in Req :
        IsDone(r, "getById") =>
            /\ req[r].status = 404 <=> (req[r].ok /\ Len(req[r].rows) = 0)
            /\ req[r].status = 200 <=> (req[r].ok /\ Len(req[r].rows) > 0)
            /\ req[r].status = 200 =>
                 /\ Len(req[r].body) = 1
                 /\ req[r].body[1].id = req[r].param
            /\ (req[r].ok /\ WhereId(table, req[r].param) = {})
                 => req[r].status = 404

UnassignedIdNotFound ==
    \E r \in Req :
        /\ IsDone(r, "getById")
        /\ table # {}
        /\ \A row \in table : row.id < req[r].param
        /\ req[r].status = 404

\* C9: fileFilter accepts a file exactly when its extension and its content
\* type are on the allow-list.
AllowedExtensions ==
    { <<".", "j", "p", "e", "g">>, <<".", "j", "p", "g">>,
      <<".", "p", "n", "g">>, <<".", "g", "i", "f">> }
AllowedContentTypes ==
    { <<"i", "m", "a", "g", "e", "/">> \o t : t \in AllowedTypes }

OnAllowList(file) ==
    /\ ToLowerCase(ExtName(file.originalname)) \in AllowedExtensions
    /\ file.mimetype \in AllowedContentTypes

FilterIsAllowList ==
    \A r \in Req :
        req[r].pc \in {"filename", "named", "rejected"}
        => (req[r].accepted <=> OnAllowList(req[r].file))

\* C10: every row's image is null, for a request without a stored file, or
\* the path /schoolImages/<name> of a file that the request that inserted
\* the row has written.
ImageReferencesWrittenFile ==
    \A row \in table :
        IF row.by = 0 THEN row.image = Null
        ELSE \/ row.image = Null /\ ~req[row.by].stored
             \/ /\ req[row.by].stored
                /\ \E w \in written : /\ w.by = row.by
                                      /\ row.image = SchoolImages \o w.name

RowWithImage ==
    \E row \in table : row.image # Null /\ row.by # 0

====
